---- MODULE Spec2Model ----
(***************************************************************************)
(* The generate-run-fix loop of runCommand (src/src/cli/commands/run/      *)
(* run.ts) and the conversation registry of the two AI clients, Claude     *)
(* (src/unnamed/part_008, lines 487-671) and ChatGPT                       *)
(* (src/src/ai/chatGPT/chatGPT.ts).                                        *)
(*                                                                         *)
(* Spec       : runCommand driving one of the two clients.                 *)
(* FairSpec   : Spec, with every await of runCommand settling.             *)
(* AnalyzeSpec: lines 38-58 of runCommand for one file, given as its        *)
(*              top-level declarations, with the Typescript analyzer.       *)
(* ClientSpec : a caller invoking the four client operations directly,     *)
(*              with any id.                                               *)
(* ExtractSpec: extractCodeBlocks applied to the responses of a provider.  *)
(* CliSpec    : runCommand with the maxTries the command line yields.      *)
(* PathSpec   : the test files runCommand writes for the units of a tree.  *)
(***************************************************************************)
EXTENDS Integers, Sequences, FiniteSets, TLC

\* ------------------------------------------------------------------ bounds
MaxTriesBound == 2      \* config.maxTries ranges over 1..MaxTriesBound
MaxFiles      == 2      \* files found by getFilesRecursively
MaxUnits      == 2      \* exported functions over all files of a run
MaxIds        == 2      \* ClientSpec: conversations started
MaxMsgs       == 2      \* ClientSpec: a history grows to at most this length
MaxStops      == 2      \* stopConversation results recorded per id
MaxDecls      == 2      \* AnalyzeSpec: top-level declarations of the file
MaxIterations == 4      \* passes through a unit's loop that are followed
MaxParts      == 3      \* ExtractSpec: parts of a response
MaxFaults     == 1      \* faults in one run: an operation with failing provider
                        \* calls, a collaborator that throws or reports an error

\* --------------------------------------------------------- program constants
ClaudeRetries == 3      \* for (let i = 0; i < 3; i++)
DefaultMaxTries == 5    \* .option('--maxTries <number>', ..., parseInt, 5)
NaN == -1               \* stands for the number NaN

VARIABLES
    provider,        \* which IAI implementation cli.ts constructed
    conversations,   \* the client's registry: id -> conversation
    inherited,       \* the object a plain {} yields for an inherited key
    nextId,          \* supply of genRandomID
    ret,             \* what the last client operation returned
    stopLog,         \* per id, the results of the stopConversation calls on it
    faults,          \* faults so far
    maxTries,        \* config.maxTries
    files,           \* getFilesRecursively(config.testDir).length
    funcs,           \* analyzedFile.exportedFunctions.length, current file
    found,           \* exported functions found in the files analyzed so far
    fileIdx,         \* position of `for (const file of files)`
    funcIdx,         \* position of `for (const func of ...exportedFunctions)`
    pc,              \* where runCommand is suspended
    chatId,          \* const [chatId, startConvoErr]
    numTries,        \* let numTries
    allTestsPassing, \* let allTestsPassing
    results,         \* the results of the last runTests
    breaking,        \* the catch block ran: `break` follows the finally
    cur,             \* what runCommand did for the unit in progress
    outcomes,        \* terminal state of every unit already left
    cleanups,        \* calls of languageSvc.cleanup
    analyses,        \* calls of languageSvc.analyzeSourceCodeFile
    resultsFile,     \* contents of jest-results.json in the language service's
                     \* temporary directory
    source,          \* AnalyzeSpec: the top-level declarations of the file
    exportedFunctions, \* AnalyzeSpec: analyzedFile.exportedFunctions
    document,        \* ExtractSpec: the parts the provider's response is made of
    rawResponse,     \* ExtractSpec: the text of the response
    testBlocks,      \* ExtractSpec: extractCodeBlocks(rawResponse)
    tree,            \* PathSpec: the files below config.testDir
    testFiles,       \* PathSpec: test file path -> the unit that wrote it last
    promise          \* how the promise returned by runCommand settled

analyzerVars == <<source, exportedFunctions>>
extractVars == <<document, rawResponse, testBlocks>>
pathVars == <<tree, testFiles>>
otherVars == <<extractVars, pathVars>>
clientVars == <<provider, conversations, inherited, nextId, ret, stopLog>>
loopVars   == <<maxTries, files, funcs, found, fileIdx, funcIdx, pc, chatId, numTries,
                allTestsPassing, results, breaking, cur, outcomes, cleanups,
                analyses, resultsFile, analyzerVars, otherVars, promise>>
vars       == <<provider, conversations, inherited, nextId, ret, stopLog, faults,
                maxTries, files, funcs, found, fileIdx, funcIdx, pc, chatId, numTries,
                allTestsPassing, results, breaking, cur, outcomes, cleanups,
                analyses, resultsFile, source, exportedFunctions, document,
                rawResponse, testBlocks, tree, testFiles, promise>>

\* ------------------------------------------------------------------- ids
\* genRandomID returns uuidv4(): the n-th call yields the n-th fresh uuid.
Uuid(n) == <<"uuid", n>>

\* this.conversations is a plain object literal: a lookup under a name that
\* Object.prototype defines yields the inherited member.
InheritedKey == <<"constructor", 0>>

\* An id no startConversation ever returned.
UnknownId == <<"non-existent-id", 0>>

NoId == <<"", 0>>

Providers == {"claude", "chatgpt"}

\* --------------------------------------------------------------- messages
\* A message is a role and a content; the content of a failure message embeds
\* the feedback text.
\* What a run leaves behind: the JSON report jest writes to the results
\* file, its standard output, or its standard error; of run n of unit <<f, k>>.
Output(kind, unit, n) == <<kind, unit[1], unit[2], n>>

\* No output: the results file as the constructor creates it, empty.
NoOutput == <<"", 0, 0, 0>>

UserPrompt == [role |-> "user", content |-> <<"userPrompt", NoOutput>>]

FailureMessage(feedback) == [role |-> "user", content |-> <<"failed", feedback>>]

AssistantMessage == [role |-> "assistant", content |-> <<"rawResponse", NoOutput>>]

\* Outcomes of one provider call (messages.create / chat.completions.create):
\* a response, or an exception. The clients tell 'prompt is too long' from
\* every other exception; 'rate_limit_error' differs from the rest only in
\* the wait that follows it.
ProviderOutcomes == {"ok", "prompt is too long", "rate_limit_error"}

Null == "null"
ErrConversationNotFound == "ErrConversationNotFound"

\* `this.conversations[conversationID]`: an own entry, an inherited member,
\* or undefined.
Lookup(convs, id) ==
    IF id \in DOMAIN convs THEN "own"
    ELSE IF id = InheritedKey THEN "inherited"
    ELSE "undefined"

\* `if (!conversation)`
NotFound(convs, id) == Lookup(convs, id) = "undefined"

\* Mutant of Delete: the registry is emptied.
DeleteAll(convs, id) == [k \in {} |-> <<>>]

\* Mutant of Delete: the entry is left in the registry.
DeleteNothing(convs, id) == convs

\* `delete this.conversations[conversationID]`: removes an own entry only.
Delete(convs, id) == [k \in DOMAIN convs \ {id} |-> convs[k]]

\* A TConversation as a caller passes it: an id and the fields that describe
\* the function under test, here the function's position.
Conversation(id, unit) == [id |-> id, unit |-> unit]

\* Mutant of Register: startConversation returns an id it did not register.
RegisterNothing(convs, id, conversation) == convs

\* Mutant of Register: the entry keeps the id the caller supplied.
RegisterAsGiven(convs, id, conversation) ==
    [k \in DOMAIN convs \cup {id} |->
        IF k = id
        THEN [id |-> conversation.id, unit |-> conversation.unit, messages |-> <<>>]
        ELSE convs[k]]

\* `conversation.id = id;
\*  this.conversations[id] = { ...conversation, messages: [] }`
Register(convs, id, conversation) ==
    [k \in DOMAIN convs \cup {id} |->
        IF k = id
        THEN [id |-> id, unit |-> conversation.unit, messages |-> <<>>]
        ELSE convs[k]]

\* array.splice(start, 1) with start = length - 2: a negative start counts
\* from the end and is clamped to 0. Positions here are 1-based.
SpliceStart(len) ==
    LET start == len - 2
    IN  IF start < 0 THEN (IF len + start < 0 THEN 0 ELSE len + start) ELSE start

\* Mutant of Splice: the delete count is 2.
SpliceTwo(msgs) ==
    LET s == SpliceStart(Len(msgs)) + 1
    IN  [i \in 1..(Len(msgs) - 2) |-> IF i < s THEN msgs[i] ELSE msgs[i + 2]]

Splice(msgs) ==
    LET s == SpliceStart(Len(msgs)) + 1
    IN  IF s > Len(msgs) THEN msgs
        ELSE [i \in 1..(Len(msgs) - 1) |-> IF i < s THEN msgs[i] ELSE msgs[i + 1]]

\* What a client operation hands back: the error of the returned pair (or the
\* exception, when threw), the blocks ("tests" for extracted code blocks,
\* "placeholder" for [""]), and the number of provider calls it made; made
\* holds the outcomes of those calls, in order.
Ret(op, id, err, threw, blocks, calls) ==
    [op |-> op, id |-> id, err |-> err, threw |-> threw, blocks |-> blocks,
     calls |-> calls, made |-> <<>>]

\* The provider calls an operation made, of the outcomes drawn for it.
Made(r, outs) == [r EXCEPT !.made = SubSeq(outs, 1, r.calls)]

NoRet == Ret("none", NoId, Null, FALSE, "none", 0)

\* The conversation object an operation works on, and its messages property
\* (an inherited member has none until generateInitialTests assigns one).
HasMessages(convs, inh, id) ==
    IF Lookup(convs, id) = "own" THEN TRUE ELSE inh.hasMessages

Messages(convs, inh, id) ==
    IF Lookup(convs, id) = "own" THEN convs[id].messages ELSE inh.messages

\* Mutant of SetMessages: the conversations share one messages array.
SetAllMessages(convs, id, msgs) ==
    [k \in DOMAIN convs |-> [convs[k] EXCEPT !.messages = msgs]]

SetMessages(convs, id, msgs) ==
    IF Lookup(convs, id) = "own"
    THEN [convs EXCEPT ![id].messages = msgs]
    ELSE convs

\* `this.conversations[conversationID] = conversation` after a splice: no
\* change for an own entry, an inherited member becomes an own entry (it has
\* none of the caller's fields).
Reassign(convs, id, msgs, spliced) ==
    IF Lookup(convs, id) = "inherited" /\ spliced
    THEN [k \in DOMAIN convs \cup {id} |->
            IF k = id
            THEN [id |-> <<"undefined", 0>>, unit |-> <<-1, -1>>, messages |-> msgs]
            ELSE convs[k]]
    ELSE SetMessages(convs, id, msgs)

\* The member Object.prototype still holds once an own entry under its name
\* is deleted: the same object, with the messages it had as an entry.
Unshadow(convs, inh, id) ==
    IF Lookup(convs, id) = "own" /\ id = InheritedKey
    THEN [hasMessages |-> TRUE, messages |-> convs[id].messages]
    ELSE inh

SetInherited(convs, inh, id, msgs) ==
    IF Lookup(convs, id) = "own" THEN inh
    ELSE [hasMessages |-> TRUE, messages |-> msgs]

\* The provider calls one operation makes at most: Claude loops, ChatGPT
\* calls once.
MaxCalls(prov) == IF prov = "claude" THEN ClaudeRetries ELSE 1

\* The outcomes of the provider calls of one operation. A call after the
\* first "ok" is never made, so its outcome is fixed.
OutcomeSeqs(prov) ==
    {outs \in [1..MaxCalls(prov) -> ProviderOutcomes] :
        \A i \in 1..(MaxCalls(prov) - 1) : outs[i] = "ok" => outs[i + 1] = "ok"}

\* The calls of outs that fail.
Failures(outs) == Cardinality({i \in DOMAIN outs : outs[i] # "ok"})

\* One of the first n calls failed with 'prompt is too long'.
Spliced(prov, outs, n) ==
    prov = "claude" /\ \E i \in 1..n : outs[i] = "prompt is too long"

\* ------------------------------------------------ Claude: the retry loops
\* Mutant of ClaudeGenerateLoop: the first failing call ends the operation.
ClaudeGenerateOnce(msgs, outs, i) ==
    IF outs[i] = "ok"
    THEN [messages |-> Append(msgs, AssistantMessage), err |-> Null,
          threw |-> FALSE, blocks |-> "tests", calls |-> i]
    ELSE [messages |-> msgs, err |-> "Failed to generate initial tests",
          threw |-> FALSE, blocks |-> "placeholder", calls |-> i]

\* generateInitialTests, `for (let i = 0; i < 3; i++) { try ... catch ... }`
RECURSIVE ClaudeGenerateLoop(_, _, _)
ClaudeGenerateLoop(msgs, outs, i) ==
    IF i > ClaudeRetries
    THEN [messages |-> msgs, err |-> "Failed to generate initial tests",
          threw |-> FALSE, blocks |-> "placeholder", calls |-> ClaudeRetries]
    ELSE IF outs[i] = "ok"
    THEN [messages |-> Append(msgs, AssistantMessage), err |-> Null,
          threw |-> FALSE, blocks |-> "tests", calls |-> i]
    ELSE ClaudeGenerateLoop(msgs, outs, i + 1)

\* provideFeedback, the same loop; 'prompt is too long' splices the history.
RECURSIVE ClaudeFeedbackLoop(_, _, _)
ClaudeFeedbackLoop(msgs, outs, i) ==
    IF i > ClaudeRetries
    THEN [messages |-> msgs, err |-> "Failed to provide feedback",
          threw |-> FALSE, blocks |-> "placeholder", calls |-> ClaudeRetries]
    ELSE IF outs[i] = "ok"
    THEN [messages |-> Append(msgs, AssistantMessage), err |-> Null,
          threw |-> FALSE, blocks |-> "tests", calls |-> i]
    ELSE ClaudeFeedbackLoop(
            IF outs[i] = "prompt is too long" THEN Splice(msgs) ELSE msgs,
            outs, i + 1)

\* ------------------------------------------- ChatGPT: one unguarded call
ChatGPTCall(msgs, outs) ==
    IF outs[1] = "ok"
    THEN [messages |-> Append(msgs, AssistantMessage), err |-> Null,
          threw |-> FALSE, blocks |-> "tests", calls |-> 1]
    ELSE [messages |-> msgs, err |-> outs[1],
          threw |-> TRUE, blocks |-> "none", calls |-> 1]

\* --------------------------------------------------- the four operations
\* Each yields the registry, the inherited object and the returned value.
Effect(convs, inh, r) == [conversations |-> convs, inherited |-> inh, ret |-> r]

startConversation(convs, inh, n, conversation) ==
    Effect(Register(convs, Uuid(n), conversation), inh,
           Ret("start", Uuid(n), Null, FALSE, "none", 0))

stopConversation(convs, inh, id) ==
    IF NotFound(convs, id)
    THEN Effect(convs, inh, Ret("stop", id, ErrConversationNotFound, FALSE, "none", 0))
    ELSE Effect(Delete(convs, id), Unshadow(convs, inh, id),
                Ret("stop", id, Null, FALSE, "none", 0))

generateInitialTests(prov, convs, inh, id, outs) ==
    IF NotFound(convs, id)
    THEN Effect(convs, inh,
                Ret("generate", id, ErrConversationNotFound, FALSE, "placeholder", 0))
    ELSE LET r == IF prov = "claude"
                  THEN ClaudeGenerateLoop(<<UserPrompt>>, outs, 1)
                  ELSE ChatGPTCall(<<UserPrompt>>, outs)
         IN  Effect(SetMessages(convs, id, r.messages),
                    SetInherited(convs, inh, id, r.messages),
                    Made(Ret("generate", id, r.err, r.threw, r.blocks, r.calls), outs))

provideFeedback(prov, convs, inh, id, feedback, outs) ==
    IF NotFound(convs, id)
    THEN Effect(convs, inh,
                Ret("feedback", id, ErrConversationNotFound, FALSE, "placeholder", 0))
    ELSE IF ~HasMessages(convs, inh, id)
    THEN \* conversation.messages.push on an object without messages
         Effect(convs, inh, Ret("feedback", id, "TypeError", TRUE, "none", 0))
    ELSE LET pushed == Append(Messages(convs, inh, id), FailureMessage(feedback))
             r == IF prov = "claude"
                  THEN ClaudeFeedbackLoop(pushed, outs, 1)
                  ELSE ChatGPTCall(pushed, outs)
         IN  Effect(Reassign(convs, id, r.messages, Spliced(prov, outs, r.calls)),
                    SetInherited(convs, inh, id, r.messages),
                    Made(Ret("feedback", id, r.err, r.threw, r.blocks, r.calls), outs))

\* ------------------------------------------------- client calls as steps
Started == {Uuid(n) : n \in 1..(nextId - 1)}

StopResults(id) == IF id \in DOMAIN stopLog THEN stopLog[id] ELSE <<>>

\* The first MaxStops results are kept, for the ids startConversation returned.
LogStop(id, err) ==
    IF id \notin Started \/ Len(StopResults(id)) >= MaxStops THEN stopLog
    ELSE [k \in DOMAIN stopLog \cup {id} |->
            IF k = id THEN Append(StopResults(id), err) ELSE stopLog[k]]

Apply(e) ==
    /\ conversations' = e.conversations
    /\ inherited' = e.inherited
    /\ ret' = e.ret

DoStart(conversation) ==
    /\ Apply(startConversation(conversations, inherited, nextId, conversation))
    /\ nextId' = nextId + 1
    /\ UNCHANGED <<provider, stopLog>>

DoStop(id) ==
    LET e == stopConversation(conversations, inherited, id)
    IN  /\ Apply(e)
        /\ stopLog' = LogStop(id, e.ret.err)
        /\ UNCHANGED <<provider, nextId>>

\* An operation that reaches the provider draws the outcomes of its calls;
\* provider calls fail in at most MaxFaults operations of a run.
CallOutcomes(reaches) ==
    IF reaches /\ faults < MaxFaults
    THEN OutcomeSeqs(provider)
    ELSE {[i \in 1..MaxCalls(provider) |-> "ok"]}

Faulty(r, outs) == IF r.calls > 0 /\ Failures(outs) > 0 THEN 1 ELSE 0

GenerateOutcomes(id) == CallOutcomes(~NotFound(conversations, id))

FeedbackOutcomes(id) ==
    CallOutcomes(~NotFound(conversations, id) /\ HasMessages(conversations, inherited, id))

DoGenerate(id, outs) ==
    /\ Apply(generateInitialTests(provider, conversations, inherited, id, outs))
    /\ UNCHANGED <<provider, nextId, stopLog>>

DoFeedback(id, feedback, outs) ==
    /\ Apply(provideFeedback(provider, conversations, inherited, id, feedback, outs))
    /\ UNCHANGED <<provider, nextId, stopLog>>

\* A collaborator may throw while the run's faults are not used up.
Fault(n) ==
    /\ faults + n <= MaxFaults
    /\ faults' = faults + n

\* `conversations = {}`, and no stopConversation made yet
Empty == [k \in {} |-> <<>>]

ClientInit ==
    /\ provider \in Providers
    /\ conversations = Empty
    /\ inherited = [hasMessages |-> FALSE, messages |-> <<>>]
    /\ nextId = 1
    /\ ret = NoRet
    /\ stopLog = Empty
    /\ faults = 0

\* ---------------------------------------------------------- runCommand
\* What runCommand has done for one unit: calls made (log lists them in
\* order, each with the results it passed or returned), try blocks entered,
\* promises it did not await, how the last exec of the runner ended, the
\* success flag of every runTests result, errors seen, and the unit's state
\* (section 4.1); context is the conversation context handed to
\* startConversation.
Call(name, output) == <<name, output>>

\* `analyzedFile.importStatements.join('\n')`: the import statements of file f.
ImportStatements(f) == <<"imports", f>>

\* `func.functionTypes.join('\n')`: the type declarations the k-th function
\* of file f refers to.
FunctionTypes(f, k) == <<"types", f, k>>

\* `functionImports: func.functionTypes.join('\n'),
\*  functionTypes: analyzedFile.importStatements.join('\n')`
Context(f, k) ==
    [functionImports |-> FunctionTypes(f, k), functionTypes |-> ImportStatements(f)]

\* The two sections of the user prompt built from a context: "The imports in
\* this file that you may need to know about are:" and "The types used are:".
PromptSections(context) ==
    [imports |-> context.functionImports, types |-> context.functionTypes]

UnitRecord(f, k) ==
    [unit |-> <<f, k>>, context |-> Context(f, k), start |-> 0, gen |-> 0, run |-> 0, fb |-> 0, stop |-> 0,
     writes |-> 0, sleeps |-> 0, tries |-> 0, floating |-> 0, exec |-> "none",
     log |-> <<>>, runHist |-> <<>>, startErr |-> Null,
     genErr |-> Null, threw |-> FALSE, state |-> "START"]

\* Mutant of NewUnit: the functions of a file are taken last to first.
NewUnitReversed(f, k) == UnitRecord(f, funcs + 1 - k)

\* The k-th function of file f, for which nothing has been done yet.
NewUnit(f, k) == UnitRecord(f, k)

NoUnit == [NewUnit(0, 0) EXCEPT !.state = "NONE"]

Pending == [state |-> "pending", err |-> Null]

\* runCommand is entered with config.maxTries one of tries.
LoopStart(tries) ==
    /\ maxTries \in tries
    /\ files \in 0..MaxFiles
    /\ funcs = 0
    /\ found = 0
    /\ fileIdx = 1
    /\ funcIdx = 1
    /\ pc = "files"
    /\ chatId = NoId
    /\ numTries = 0
    /\ allTestsPassing = FALSE
    /\ results = NoOutput
    /\ breaking = FALSE
    /\ cur = NoUnit
    /\ outcomes = <<>>
    /\ cleanups = 0
    /\ analyses = 0
    /\ resultsFile = NoOutput
    /\ source = <<>>
    /\ exportedFunctions = <<>>
    /\ document = <<>>
    /\ rawResponse = <<>>
    /\ testBlocks = <<>>
    /\ tree = <<>>
    /\ testFiles = <<>>
    /\ promise = Pending

LoopInit == LoopStart(1..MaxTriesBound)

Init == ClientInit /\ LoopInit

\* Mutant of Reject: the error is swallowed and runCommand returns.
RejectSwallowed(err) ==
    /\ promise' = [state |-> "resolved", err |-> Null]
    /\ pc' = "done"

\* `throw` outside the try block: the promise of runCommand rejects.
Reject(err) ==
    /\ promise' = [state |-> "rejected", err |-> err]
    /\ pc' = "done"

\* Mutant of LeaveUnit: the break leaves the loop over the functions as well.
LeaveUnitAndFile(state) ==
    /\ outcomes' = Append(outcomes, state)
    /\ funcIdx' = funcs + 1
    /\ pc' = "funcs"

\* The unit's loop is left (break, or the while condition fails): next func.
LeaveUnit(state) ==
    /\ outcomes' = Append(outcomes, state)
    /\ funcIdx' = funcIdx + 1
    /\ pc' = "funcs"

\* Mutants of BudgetExceeded: the budget check is off by one, either way.
BudgetExceededEarly(n, max) == n >= max

BudgetExceededLate(n, max) == n > max + 1

\* `if (numTries > config.maxTries)`: a comparison with NaN is false.
BudgetExceeded(n, max) == max # NaN /\ n > max

\* Mutant of IsFirstTry: tests are generated anew on every attempt.
IsAnyTry(n) == n >= 1

\* `if (numTries === 1)`
IsFirstTry(n) == n = 1

\* Mutant of FilesDone: the loop over the files runs once more.
FilesDoneLate(i, n) == i > n + 1

\* `for (const file of files)` has gone through the n files.
FilesDone(i, n) == i > n

\* for (const file of files): exportAllDeclarations when config.export is
\* set, then analyzeSourceCodeFile, which yields the file's exported
\* functions; either may throw. After the last file: cleanup and return.
NextFile ==
    /\ pc = "files"
    /\ UNCHANGED <<analyzerVars, otherVars, resultsFile>>
    /\ UNCHANGED <<clientVars, maxTries, files, chatId, numTries,
                   allTestsPassing, results, breaking, cur, outcomes>>
    /\ \/ /\ FilesDone(fileIdx, files)
          /\ cleanups' = cleanups + 1
          /\ promise' = [state |-> "resolved", err |-> Null]
          /\ pc' = "done"
          /\ UNCHANGED <<fileIdx, funcIdx, funcs, found, faults, analyses>>
       \/ /\ ~FilesDone(fileIdx, files)
          /\ \E n \in 0..(MaxUnits - found) :
                /\ funcs' = n
                /\ found' = found + n
          /\ analyses' = analyses + 1
          /\ funcIdx' = 1
          /\ pc' = "funcs"
          /\ UNCHANGED <<fileIdx, cleanups, promise, faults>>
       \/ /\ ~FilesDone(fileIdx, files)
          /\ Fault(1)
          /\ \E err \in {"exportAllDeclarations", "analyzeSourceCodeFile"} :
                /\ Reject(err)
                /\ analyses' = IF err = "analyzeSourceCodeFile"
                               THEN analyses + 1 ELSE analyses
          /\ UNCHANGED <<fileIdx, funcIdx, funcs, found, cleanups>>

\* for (const func of analyzedFile.exportedFunctions): startConversation.
NextFunc ==
    /\ pc = "funcs"
    /\ UNCHANGED <<analyzerVars, otherVars, resultsFile>>
    /\ UNCHANGED <<maxTries, files, funcs, found, results, breaking, cleanups,
                   analyses>>
    /\ \/ /\ funcIdx > funcs
          /\ fileIdx' = fileIdx + 1
          /\ pc' = "files"
          /\ UNCHANGED <<clientVars, faults, funcIdx, chatId, numTries,
                         allTestsPassing, cur, outcomes, promise>>
       \/ /\ funcIdx <= funcs
          /\ DoStart(Conversation(NoId, <<fileIdx, funcIdx>>))
          /\ chatId' = ret'.id
          /\ allTestsPassing' = FALSE
          /\ numTries' = 0
          /\ cur' = [NewUnit(fileIdx, funcIdx) EXCEPT !.start = 1,
                        !.log = <<Call("startConversation", NoOutput)>>,
                        !.state = "GENERATING"]
          /\ pc' = "while"
          /\ UNCHANGED <<faults, fileIdx, funcIdx, outcomes, promise>>
       \/ /\ funcIdx <= funcs
          \* an IAI whose startConversation returns ['', err]
          /\ Fault(1)
          /\ ret' = Ret("start", NoId, "startConvoErr", FALSE, "none", 0)
          /\ chatId' = NoId
          /\ cur' = [NewUnit(fileIdx, funcIdx) EXCEPT !.start = 1,
                        !.log = <<Call("startConversation", NoOutput)>>,
                        !.startErr = "startConvoErr", !.state = "FATAL"]
          /\ outcomes' = Append(outcomes, "FATAL")
          /\ Reject("startConvoErr")
          /\ UNCHANGED <<provider, conversations, inherited, nextId, stopLog,
                         fileIdx, funcIdx, numTries, allTestsPassing>>

\* Mutant of Catch: the break leaves the loop at once, without the finally
\* block.
CatchSkipsFinally ==
    /\ breaking' = FALSE
    /\ LeaveUnit("ABORTED")

\* Mutant of Catch: the catch block logs and does not break.
CatchAndContinue ==
    /\ breaking' = FALSE
    /\ pc' = "sleep"
    /\ UNCHANGED <<funcIdx, outcomes>>

\* `catch (error) { ...; break; }`: the finally block sleeps first.
Catch ==
    /\ breaking' = TRUE
    /\ pc' = "sleep"
    /\ UNCHANGED <<funcIdx, outcomes>>

\* while (!allTestsPassing) { numTries += 1; if (numTries > maxTries) {...} }
\* The stopConversation call is not awaited: its body, which has no await
\* of its own, runs to its end during the call.
WhileTop ==
    /\ pc = "while"
    /\ numTries < MaxIterations
    /\ UNCHANGED <<analyzerVars, otherVars, resultsFile>>
    /\ UNCHANGED <<faults, maxTries, files, funcs, found, fileIdx, chatId,
                   allTestsPassing, results, breaking, cleanups, analyses, promise>>
    /\ IF allTestsPassing
       THEN /\ LeaveUnit(cur.state)
            /\ UNCHANGED <<clientVars, numTries, cur>>
       ELSE /\ numTries' = numTries + 1
            /\ IF BudgetExceeded(numTries', maxTries)
               THEN /\ DoStop(chatId)
                    /\ cur' = [cur EXCEPT !.stop = @ + 1, !.floating = @ + 1,
                                          !.log = Append(@, Call("stopConversation", NoOutput)),
                                          !.state = "EXHAUSTED"]
                    /\ LeaveUnit("EXHAUSTED")
               ELSE /\ pc' = IF IsFirstTry(numTries') THEN "generate" ELSE "run"
                    /\ cur' = [cur EXCEPT !.tries = @ + 1]
                    /\ UNCHANGED <<clientVars, funcIdx, outcomes>>

\* The blocks the loop hands to writeTestsToFile: those the client operation
\* just returned, as the next content of the unit's test file.
Written == Output(ret'.blocks, cur.unit, cur.writes + 1)

\* `if (numTries === 1) { generateInitialTests; throw on error; write }`
GenerateInitial ==
    /\ pc = "generate"
    /\ UNCHANGED <<analyzerVars, otherVars, resultsFile>>
    /\ UNCHANGED <<maxTries, files, funcs, found, fileIdx, chatId, numTries,
                   allTestsPassing, results, cleanups, analyses, promise>>
    /\ \E outs \in GenerateOutcomes(chatId) :
          /\ DoGenerate(chatId, outs)
          /\ \/ /\ ret'.threw
                /\ Fault(Faulty(ret', outs))
                /\ cur' = [cur EXCEPT !.gen = @ + 1, !.threw = TRUE,
                                      !.log = Append(@, Call("generateInitialTests", NoOutput)),
                                      !.state = "ABORTED"]
                /\ Catch
             \/ /\ ~ret'.threw /\ ret'.err # Null
                /\ Fault(Faulty(ret', outs))
                /\ cur' = [cur EXCEPT !.gen = @ + 1, !.genErr = ret'.err,
                                      !.log = Append(@, Call("generateInitialTests", NoOutput)),
                                      !.state = "FATAL"]
                /\ Catch
             \/ /\ ~ret'.threw /\ ret'.err = Null
                /\ Fault(Faulty(ret', outs))
                /\ cur' = [cur EXCEPT !.gen = @ + 1, !.writes = @ + 1,
                                      !.log = @ \o <<Call("generateInitialTests", NoOutput),
                                                     Call("writeTestsToFile", Written)>>,
                                      !.state = "RUNNING"]
                /\ pc' = "run"
                /\ UNCHANGED <<breaking, funcIdx, outcomes>>
             \/ /\ ~ret'.threw /\ ret'.err = Null
                \* writeTestsToFile throws
                /\ Fault(Faulty(ret', outs) + 1)
                /\ cur' = [cur EXCEPT !.gen = @ + 1, !.threw = TRUE,
                                      !.log = @ \o <<Call("generateInitialTests", NoOutput),
                                                     Call("writeTestsToFile", Written)>>,
                                      !.state = "ABORTED"]
                /\ Catch

\* How `exec('cd rootDir && npx jest --json --outputFile=... testFilePath')`
\* ends: jest ran and the tests passed, jest ran and tests failed, or the
\* command failed before jest wrote its report (no such directory, no runner,
\* permission denied).
ExecOutcomes == {"passed", "failed", "notRun"}

\* The results file after the exec: jest overwrites it with its report.
JestReport(file, unit, n, outcome) ==
    IF outcome = "notRun" THEN file ELSE Output("json", unit, n)

\* Typescript.runTests, run n of unit: the promise always resolves. On an
\* exec error the results are the parsed contents of the results file, or
\* `stderr || stdout` when the file does not parse (it is empty).
runTests(file, unit, n, outcome) ==
    LET report == JestReport(file, unit, n, outcome)
    IN  IF outcome = "passed"
        THEN [success |-> TRUE, results |-> Output("stdout", unit, n), file |-> report]
        ELSE [success |-> FALSE,
              results |-> IF report = NoOutput THEN Output("stderr", unit, n) ELSE report,
              file |-> report]

\* Mutant of AfterRun: the feedback round follows every run.
AfterRunAlwaysFeedback(success) == "feedback"

\* `if (success) { allTestsPassing = true; continue }`: a passing run goes to
\* the finally block, a failing one to provideFeedback.
AfterRun(success) == IF success THEN "sleep" ELSE "feedback"

\* `const { success, results } = await runTests(rootDir, testFilePath)`; the
\* last disjunct is an ILanguage whose runTests rejects.
RunTests ==
    /\ pc = "run"
    /\ UNCHANGED <<analyzerVars, otherVars>>
    /\ UNCHANGED <<clientVars, maxTries, files, funcs, found, fileIdx, chatId,
                   numTries, cleanups, analyses, promise>>
    /\ \/ \E outcome \in ExecOutcomes :
             LET r == runTests(resultsFile, cur.unit, cur.run + 1, outcome)
             IN  /\ Fault(IF outcome = "notRun" THEN 1 ELSE 0)
                 /\ resultsFile' = r.file
                 /\ results' = r.results
                 /\ allTestsPassing' = r.success
                 /\ cur' = [cur EXCEPT !.run = @ + 1,
                                       !.runHist = Append(@, r.success),
                                       !.exec = outcome,
                                       !.log = Append(@, Call("runTests", r.results)),
                                       !.state = IF r.success THEN "PASSED" ELSE "FEEDBACK"]
                 /\ pc' = AfterRun(r.success)
                 /\ UNCHANGED <<breaking, funcIdx, outcomes>>
       \/ /\ Fault(1)
          /\ cur' = [cur EXCEPT !.run = @ + 1, !.threw = TRUE, !.exec = "rejected",
                                !.log = Append(@, Call("runTests", NoOutput)),
                                !.state = "ABORTED"]
          /\ Catch
          /\ UNCHANGED <<allTestsPassing, results, resultsFile>>

\* `const [revisedTests, err] = await provideFeedback(chatId, results);
\*  writeTestsToFile(testFilePath, revisedTests)`: err is never read.
ProvideFeedback ==
    /\ pc = "feedback"
    /\ UNCHANGED <<analyzerVars, otherVars, resultsFile>>
    /\ UNCHANGED <<maxTries, files, funcs, found, fileIdx, chatId, numTries,
                   allTestsPassing, results, cleanups, analyses, promise>>
    /\ \E outs \in FeedbackOutcomes(chatId) :
          /\ DoFeedback(chatId, results, outs)
          /\ \/ /\ ret'.threw
                /\ Fault(Faulty(ret', outs))
                /\ cur' = [cur EXCEPT !.fb = @ + 1, !.threw = TRUE,
                                      !.log = Append(@, Call("provideFeedback", results)),
                                      !.state = "ABORTED"]
                /\ Catch
             \/ /\ ~ret'.threw
                /\ Fault(Faulty(ret', outs))
                /\ cur' = [cur EXCEPT !.fb = @ + 1, !.writes = @ + 1,
                                      !.log = @ \o <<Call("provideFeedback", results),
                                                     Call("writeTestsToFile", Written)>>,
                                      !.state = "GENERATING"]
                /\ pc' = "sleep"
                /\ UNCHANGED <<breaking, funcIdx, outcomes>>
             \/ /\ ~ret'.threw
                \* writeTestsToFile throws
                /\ Fault(Faulty(ret', outs) + 1)
                /\ cur' = [cur EXCEPT !.fb = @ + 1, !.threw = TRUE,
                                      !.log = @ \o <<Call("provideFeedback", results),
                                                     Call("writeTestsToFile", Written)>>,
                                      !.state = "ABORTED"]
                /\ Catch

\* `finally { await new Promise(resolve => setTimeout(resolve, config.sleep)) }`
\* and then the break of the catch block, or the next iteration.
Sleep ==
    /\ pc = "sleep"
    /\ UNCHANGED <<analyzerVars, otherVars, resultsFile>>
    /\ UNCHANGED <<clientVars, faults, maxTries, files, funcs, found, fileIdx,
                   chatId, numTries, allTestsPassing, results, cleanups, analyses,
                   promise>>
    /\ cur' = [cur EXCEPT !.sleeps = @ + 1,
                          !.log = Append(@, Call("sleep", NoOutput))]
    /\ breaking' = FALSE
    /\ IF breaking
       THEN LeaveUnit(cur.state)
       ELSE /\ pc' = "while"
            /\ UNCHANGED <<funcIdx, outcomes>>

Next ==
    \/ NextFile
    \/ NextFunc
    \/ WhileTop
    \/ GenerateInitial
    \/ RunTests
    \/ ProvideFeedback
    \/ Sleep

Spec == Init /\ [][Next]_vars

\* runCommand is one async function: every await of it settles (the
\* collaborators resolve or throw, the sleep timer fires), and the event loop
\* then runs the continuation.
FairSpec == Spec /\ WF_vars(Next)

\* ------------------------------------------------------- the command line
\* The digits of s from position i on that are digits in the radix, read as a
\* number in that radix after acc.
RECURSIVE Accumulate(_, _, _, _)
Accumulate(s, radix, i, acc) ==
    IF i > Len(s) \/ s[i] >= radix THEN acc
    ELSE Accumulate(s, radix, i + 1, acc * radix + s[i])

\* parseInt(string, radix) for a string of decimal digits and a radix in
\* 2..10: the longest prefix of digits of that radix, NaN when it is empty.
parseInt(s, radix) ==
    IF s = <<>> \/ s[1] >= radix THEN NaN ELSE Accumulate(s, radix, 1, 0)

\* `--maxTries 1` and `--maxTries 5`, as their digits.
Args == {<<1>>, <<5>>}

\* commander calls the option's function with the argument and the previous
\* value of the option, which is its default at first: parseInt(arg, 5).
maxTriesOption(arg) == parseInt(arg, DefaultMaxTries)

CliInit == ClientInit /\ LoopStart({maxTriesOption(arg) : arg \in Args})

CliSpec == CliInit /\ [][Next]_vars

\* ------------------------------------------------ the Typescript analyzer
\* A top-level declaration of a source file: a named function declaration, a
\* variable statement that declares an arrow function or a function
\* expression, a variable statement that declares anything else, or a class;
\* with or without the export modifier. Its name is its position.
Kinds == {"function", "arrow", "value", "class"}

Declarations == [kind : Kinds, exported : BOOLEAN]

Sources == UNION {[1..n -> Declarations] : n \in 0..MaxDecls}

\* Mutant of HasExportModifier: every declaration counts as exported.
AnyModifiers(decl) == TRUE

\* `node.modifiers?.some(modifier => modifier.kind === SyntaxKind.ExportKeyword)`
HasExportModifier(decl) == decl.exported

\* collectExportedFunctions: the positions, in source order, of the function
\* declarations and function-valued variable statements that carry the
\* export modifier.
RECURSIVE collectExportedFunctions(_, _)
collectExportedFunctions(src, i) ==
    IF i > Len(src) THEN <<>>
    ELSE IF src[i].kind \in {"function", "arrow"} /\ HasExportModifier(src[i])
    THEN <<i>> \o collectExportedFunctions(src, i + 1)
    ELSE collectExportedFunctions(src, i + 1)

\* exportAllDeclarations: every top-level declaration gets the export
\* modifier, and the file is overwritten.
exportAllDeclarations(src) == [i \in DOMAIN src |-> [src[i] EXCEPT !.exported = TRUE]]

AnalyzeInit ==
    /\ ClientInit
    /\ maxTries = 1
    /\ files = 1
    /\ funcs = 0
    /\ found = 0
    /\ fileIdx = 1
    /\ funcIdx = 1
    /\ pc \in {"export", "analyze"}
    /\ chatId = NoId
    /\ numTries = 0
    /\ allTestsPassing = FALSE
    /\ results = NoOutput
    /\ breaking = FALSE
    /\ cur = NoUnit
    /\ outcomes = <<>>
    /\ cleanups = 0
    /\ analyses = 0
    /\ resultsFile = NoOutput
    /\ source \in Sources
    /\ exportedFunctions = <<>>
    /\ document = <<>>
    /\ rawResponse = <<>>
    /\ testBlocks = <<>>
    /\ tree = <<>>
    /\ testFiles = <<>>
    /\ promise = Pending

\* `if (config.export) await config.languageSvc.exportAllDeclarations(file)`:
\* an empty file makes it throw.
ExportAll ==
    /\ pc = "export"
    /\ UNCHANGED <<clientVars, faults, maxTries, files, funcs, found, fileIdx,
                   funcIdx, chatId, numTries, allTestsPassing, results, breaking,
                   cur, outcomes, cleanups, analyses, resultsFile,
                   exportedFunctions, otherVars>>
    /\ IF source = <<>>
       THEN /\ Reject("exportAllDeclarations")
            /\ UNCHANGED source
       ELSE /\ source' = exportAllDeclarations(source)
            /\ pc' = "analyze"
            /\ UNCHANGED promise

\* `const analyzedFile = config.languageSvc.analyzeSourceCodeFile(file)`
AnalyzeFile ==
    /\ pc = "analyze"
    /\ exportedFunctions' = collectExportedFunctions(source, 1)
    /\ funcs' = Len(exportedFunctions')
    /\ found' = funcs'
    /\ analyses' = analyses + 1
    /\ funcIdx' = 1
    /\ pc' = "start"
    /\ UNCHANGED <<clientVars, faults, maxTries, files, fileIdx, chatId, numTries,
                   allTestsPassing, results, breaking, cur, outcomes, cleanups,
                   resultsFile, source, otherVars, promise>>

\* for (const func of analyzedFile.exportedFunctions): startConversation for
\* func; the retry loop of the unit is left out.
StartUnit ==
    /\ pc = "start"
    /\ funcIdx <= funcs
    /\ DoStart(Conversation(NoId, <<fileIdx, exportedFunctions[funcIdx]>>))
    /\ chatId' = ret'.id
    /\ cur' = [NewUnit(fileIdx, exportedFunctions[funcIdx]) EXCEPT !.start = 1,
                  !.log = <<Call("startConversation", NoOutput)>>]
    /\ funcIdx' = funcIdx + 1
    /\ UNCHANGED <<faults, maxTries, files, funcs, found, fileIdx, pc, numTries,
                   allTestsPassing, results, breaking, outcomes, cleanups,
                   analyses, resultsFile, analyzerVars, otherVars, promise>>

AnalyzeNext ==
    \/ ExportAll
    \/ AnalyzeFile
    \/ StartUnit

AnalyzeSpec == AnalyzeInit /\ [][AnalyzeNext]_vars

\* ------------------------------------------ the client, called directly
\* A caller holds the ids startConversation returned, stopped or not, and
\* may pass any other string as well.
CallerIds == Started \cup {UnknownId, InheritedKey}

Idle ==
    /\ maxTries = 1
    /\ files = 0
    /\ funcs = 0
    /\ found = 0
    /\ fileIdx = 1
    /\ funcIdx = 1
    /\ pc = "client"
    /\ chatId = NoId
    /\ numTries = 0
    /\ allTestsPassing = FALSE
    /\ results = NoOutput
    /\ breaking = FALSE
    /\ cur = NoUnit
    /\ outcomes = <<>>
    /\ cleanups = 0
    /\ analyses = 0
    /\ resultsFile = NoOutput
    /\ source = <<>>
    /\ exportedFunctions = <<>>
    /\ document = <<>>
    /\ rawResponse = <<>>
    /\ testBlocks = <<>>
    /\ tree = <<>>
    /\ testFiles = <<>>
    /\ promise = Pending

\* The caller describes another function in every conversation it starts.
CallStart ==
    /\ nextId <= MaxIds
    /\ \E id \in CallerIds \cup {NoId} : DoStart(Conversation(id, <<0, nextId>>))
    /\ UNCHANGED <<faults, loopVars>>

CallStop ==
    /\ \E id \in CallerIds : DoStop(id)
    /\ UNCHANGED <<faults, loopVars>>

CallGenerate ==
    /\ \E id \in CallerIds, outs \in OutcomeSeqs(provider) :
          /\ outs \in GenerateOutcomes(id)
          /\ DoGenerate(id, outs)
          /\ Fault(Faulty(ret', outs))
    /\ UNCHANGED loopVars

CallFeedback ==
    /\ \E id \in CallerIds :
          /\ \/ NotFound(conversations, id)
             \/ ~HasMessages(conversations, inherited, id)
             \/ Len(Messages(conversations, inherited, id)) + 2 <= MaxMsgs
          /\ \E outs \in FeedbackOutcomes(id) :
                /\ DoFeedback(id, NoOutput, outs)
                /\ Fault(Faulty(ret', outs))
    /\ UNCHANGED loopVars

ClientNext ==
    \/ CallStart
    \/ CallStop
    \/ CallGenerate
    \/ CallFeedback

ClientSpecInit == ClientInit /\ Idle

ClientSpec == ClientSpecInit /\ [][ClientNext]_vars

\* ------------------------------------------------------ extractCodeBlocks
\* A response is a sequence of characters: a backtick, a newline, a space, a
\* character of code ("x"), a character of prose ("o"), or a whole info word
\* after a fence ("typescript", "javascript", "python"), kept as one symbol.
Backtick == "backtick"
Newline == "\n"
Whitespace == {" ", Newline}
Fence == <<Backtick, Backtick, Backtick>>

\* `(?:javascript|typescript)`
RegexLabels == {"javascript", "typescript"}

\* The labels a provider puts on a fenced block; "" is a fence without label.
Labels == RegexLabels \cup {"python", ""}

\* What a provider writes between the opening line of a block and its closing
\* fence, and what it writes outside the blocks.
Contents == {<<"x", Newline>>, <<" ", "x", " ", "x", Newline>>, <<"x", Backtick, Newline>>}
Texts == {<<Newline>>, <<"o", Newline>>, <<Newline, "o", Newline>>}

Block(label, content) == [kind |-> "block", label |-> label, content |-> content]
Text(chars) == [kind |-> "text", label |-> "", content |-> chars]

Parts == {Block(l, c) : l \in Labels, c \in Contents} \cup {Text(t) : t \in Texts}

Documents == UNION {[1..n -> Parts] : n \in 0..MaxParts}

\* The text of a part: a block is its opening fence and label, a newline, its
\* content and the closing fence.
RenderPart(part) ==
    IF part.kind = "text" THEN part.content
    ELSE Fence \o (IF part.label = "" THEN <<>> ELSE <<part.label>>)
               \o <<Newline>> \o part.content \o Fence

RECURSIVE Render(_)
Render(doc) == IF doc = <<>> THEN <<>> ELSE RenderPart(Head(doc)) \o Render(Tail(doc))

\* Three backticks at position i of s.
IsFence(s, i) ==
    /\ i + 2 <= Len(s)
    /\ s[i] = Backtick /\ s[i + 1] = Backtick /\ s[i + 2] = Backtick

\* Where `(?:javascript|typescript)?\n` ends when matched after the fence at
\* i: the position of the first character of the group, or 0 for no match.
GroupStart(s, i) ==
    IF i + 4 <= Len(s) /\ s[i + 3] \in RegexLabels /\ s[i + 4] = Newline THEN i + 5
    ELSE IF i + 3 <= Len(s) /\ s[i + 3] = Newline THEN i + 4
    ELSE 0

\* `([\s\S]*?)` followed by three backticks: the group ends before the first
\* fence at or after j; 0 when there is none.
RECURSIVE GroupEnd(_, _)
GroupEnd(s, j) ==
    IF j + 2 > Len(s) THEN 0
    ELSE IF IsFence(s, j) THEN j
    ELSE GroupEnd(s, j + 1)

\* `[...response.matchAll(codeBlockRegex)]`: group 1 of the matches of the
\* global regex from position i on, each match resuming after the one before.
RECURSIVE matchAll(_, _)
matchAll(s, i) ==
    IF i > Len(s) THEN <<>>
    ELSE IF IsFence(s, i) /\ GroupStart(s, i) # 0 /\ GroupEnd(s, GroupStart(s, i)) # 0
    THEN LET from == GroupStart(s, i)
             to == GroupEnd(s, from)
         IN  <<SubSeq(s, from, to - 1)>> \o matchAll(s, to + 3)
    ELSE matchAll(s, i + 1)

\* Mutant of trim: the group is returned as matched.
NoTrim(chars) == chars

\* String.prototype.trim: leading and trailing whitespace removed.
RECURSIVE trim(_)
trim(chars) ==
    IF chars = <<>> THEN <<>>
    ELSE IF Head(chars) \in Whitespace THEN trim(Tail(chars))
    ELSE IF chars[Len(chars)] \in Whitespace THEN trim(SubSeq(chars, 1, Len(chars) - 1))
    ELSE chars

\* `matches.map(match => match[1].trim())`
extractCodeBlocks(response) ==
    LET matches == matchAll(response, 1)
    IN  [i \in DOMAIN matches |-> trim(matches[i])]

ExtractInit ==
    /\ ClientInit
    /\ maxTries = 1
    /\ files = 0
    /\ funcs = 0
    /\ found = 0
    /\ fileIdx = 1
    /\ funcIdx = 1
    /\ pc = "response"
    /\ chatId = NoId
    /\ numTries = 0
    /\ allTestsPassing = FALSE
    /\ results = NoOutput
    /\ breaking = FALSE
    /\ cur = NoUnit
    /\ outcomes = <<>>
    /\ cleanups = 0
    /\ analyses = 0
    /\ resultsFile = NoOutput
    /\ source = <<>>
    /\ exportedFunctions = <<>>
    /\ document \in Documents
    /\ rawResponse = Render(document)
    /\ testBlocks = <<>>
    /\ tree = <<>>
    /\ testFiles = <<>>
    /\ promise = Pending

\* `const testBlocks = extractCodeBlocks(rawResponse)`
Extract ==
    /\ pc \in {"response", "fenced"}
    /\ testBlocks' = extractCodeBlocks(rawResponse)
    /\ pc' = IF pc = "response" THEN "extracted" ELSE "extractedAgain"
    /\ UNCHANGED <<clientVars, faults, maxTries, files, funcs, found, fileIdx,
                   funcIdx, chatId, numTries, allTestsPassing, results, breaking,
                   cur, outcomes, cleanups, analyses, resultsFile, analyzerVars,
                   document, rawResponse, pathVars, promise>>

\* A returned block is put between fences again, each fence on its own line,
\* under any label the regex accepts, and is the next response.
Refence ==
    /\ pc = "extracted"
    /\ \E i \in DOMAIN testBlocks, label \in RegexLabels \cup {""} :
          document' = <<Block(label, testBlocks[i] \o <<Newline>>)>>
    /\ rawResponse' = Render(document')
    /\ pc' = "fenced"
    /\ UNCHANGED <<clientVars, faults, maxTries, files, funcs, found, fileIdx,
                   funcIdx, chatId, numTries, allTestsPassing, results, breaking,
                   cur, outcomes, cleanups, analyses, resultsFile, analyzerVars,
                   testBlocks, pathVars, promise>>

ExtractNext ==
    \/ Extract
    \/ Refence

ExtractSpec == ExtractInit /\ [][ExtractNext]_vars

\* ------------------------------------------------------- the test files
\* The files getFilesRecursively returns, in its order: each in a directory
\* below config.testDir, with a base name of its own (its position), and with
\* the names of the functions it exports, which differ within a file.
Dirs == {"src", "src/lib"}
Names == {"parse", "format"}

FunctionLists ==
    {names \in UNION {[1..n -> Names] : n \in 0..MaxUnits} :
        \A i, j \in DOMAIN names : i # j => names[i] # names[j]}

Trees == UNION {[1..n -> [dir : Dirs, functions : FunctionLists]] : n \in 0..MaxFiles}

\* `dirname(file)`
dirname(file) == file.dir

\* `join(dirname(file), `${func.functionName}.ut.test.ts`)`
testFilePath(file, functionName) == <<dirname(file), functionName, "ut.test.ts">>

\* writeFileSync(testFilePath, content): the file now holds the tests of unit.
writeTestsToFile(fs, path, unit) ==
    [q \in DOMAIN fs \cup {path} |-> IF q = path THEN unit ELSE fs[q]]

PathInit ==
    /\ ClientInit
    /\ maxTries = 1
    /\ tree \in Trees
    /\ files = Len(tree)
    /\ funcs = 0
    /\ found = 0
    /\ fileIdx = 1
    /\ funcIdx = 1
    /\ pc = "files"
    /\ chatId = NoId
    /\ numTries = 0
    /\ allTestsPassing = FALSE
    /\ results = NoOutput
    /\ breaking = FALSE
    /\ cur = NoUnit
    /\ outcomes = <<>>
    /\ cleanups = 0
    /\ analyses = 0
    /\ resultsFile = NoOutput
    /\ source = <<>>
    /\ exportedFunctions = <<>>
    /\ document = <<>>
    /\ rawResponse = <<>>
    /\ testBlocks = <<>>
    /\ testFiles = Empty
    /\ promise = Pending

\* `for (const file of files)`: the next file is analyzed, or cleanup is
\* called and runCommand returns.
PathNextFile ==
    /\ pc = "files"
    /\ IF FilesDone(fileIdx, files)
       THEN /\ cleanups' = cleanups + 1
            /\ promise' = [state |-> "resolved", err |-> Null]
            /\ pc' = "done"
            /\ UNCHANGED <<funcs, found, analyses>>
       ELSE /\ funcs' = Len(tree[fileIdx].functions)
            /\ found' = found + funcs'
            /\ analyses' = analyses + 1
            /\ pc' = "funcs"
            /\ UNCHANGED <<cleanups, promise>>
    /\ UNCHANGED <<clientVars, faults, maxTries, files, fileIdx, funcIdx, chatId,
                   numTries, allTestsPassing, results, breaking, cur, outcomes,
                   resultsFile, analyzerVars, extractVars, pathVars>>

\* `for (const func of analyzedFile.exportedFunctions)`: the tests generated
\* for func are written to its test file and pass; the conversation and the
\* retries of the unit are left out.
PathUnit ==
    /\ pc = "funcs"
    /\ IF funcIdx > funcs
       THEN /\ fileIdx' = fileIdx + 1
            /\ funcIdx' = 1
            /\ pc' = "files"
            /\ UNCHANGED <<cur, outcomes, testFiles>>
       ELSE /\ testFiles' = writeTestsToFile(testFiles,
                                testFilePath(tree[fileIdx], tree[fileIdx].functions[funcIdx]),
                                <<fileIdx, funcIdx>>)
            /\ cur' = [NewUnit(fileIdx, funcIdx) EXCEPT !.gen = 1, !.writes = 1,
                          !.run = 1, !.tries = 1, !.state = "PASSED"]
            /\ outcomes' = Append(outcomes, "PASSED")
            /\ funcIdx' = funcIdx + 1
            /\ UNCHANGED <<fileIdx, pc>>
    /\ UNCHANGED <<clientVars, faults, maxTries, files, funcs, found, chatId,
                   numTries, allTestsPassing, results, breaking, cleanups, analyses,
                   resultsFile, analyzerVars, extractVars, tree, promise>>

PathNext ==
    \/ PathNextFile
    \/ PathUnit

PathSpec == PathInit /\ [][PathNext]_vars

\* =============================================================== claims
\* runCommand is inside the retry loop of cur's unit.
InUnit == pc \in {"while", "generate", "run", "feedback", "sleep"}

\* The loop has left cur's unit.
UnitEnded == cur.state # "NONE" /\ ~InUnit

\* runCommand rejected with an error raised while processing a unit.
RejectedByUnit ==
    /\ promise.state = "rejected"
    /\ promise.err \notin {"exportAllDeclarations", "analyzeSourceCodeFile"}

\* Every runTests of cur's unit reported failure, generation succeeded and
\* no collaborator threw.
AlwaysFailed ==
    /\ cur.startErr = Null /\ cur.genErr = Null /\ ~cur.threw
    /\ \A i \in DOMAIN cur.runHist : ~cur.runHist[i]

\* C1: a unit whose every run fails, with no collaborator throwing, ends
\* after exactly maxTries runTests calls, maxTries provideFeedback calls and
\* one stopConversation call, as EXHAUSTED, and runCommand does not reject.
C1_Exhausted ==
    (UnitEnded /\ AlwaysFailed) =>
        /\ cur.run = maxTries
        /\ cur.fb = maxTries
        /\ cur.stop = 1
        /\ cur.state = "EXHAUSTED"
        /\ ~RejectedByUnit

C1_Witness ==
    /\ UnitEnded /\ AlwaysFailed
    /\ maxTries = 2 /\ cur.run = 2 /\ cur.fb = 2 /\ cur.state = "EXHAUSTED"

\* The runs of cur's unit failed k-1 times and then succeeded.
PassedAt(k) ==
    /\ Len(cur.runHist) = k
    /\ cur.runHist[k]
    /\ \A i \in 1..(k - 1) : ~cur.runHist[i]

\* C2: a unit whose runs fail on attempts 1..k-1 and succeed on attempt k
\* (k <= maxTries) ends after one generateInitialTests call, k runTests calls
\* and k-1 provideFeedback calls, as PASSED, and runCommand goes on.
C2_PassedAtK ==
    \A k \in 1..maxTries :
        (UnitEnded /\ PassedAt(k)) =>
            /\ cur.gen = 1
            /\ cur.run = k
            /\ cur.fb = k - 1
            /\ cur.state = "PASSED"
            /\ ~cur.threw
            /\ ~RejectedByUnit

C2_Witness ==
    /\ UnitEnded /\ PassedAt(2)
    /\ cur.gen = 1 /\ cur.fb = 1
    /\ pc = "funcs" /\ promise.state = "pending"

\* C3: when a unit has passed and the loop has left it, stopConversation has
\* been called exactly once for it.
C3_StopOnPass ==
    (UnitEnded /\ cur.state = "PASSED") => cur.stop = 1

\* C4: a unit's conversation is released whatever the outcome: once the loop
\* has left the unit its id is not in the registry, at most one conversation
\* is live at any time, and none when runCommand returns.
C4_Released ==
    /\ (UnitEnded /\ cur.startErr = Null) => chatId \notin DOMAIN conversations
    /\ Cardinality(DOMAIN conversations) <= 1
    /\ promise.state = "resolved" => DOMAIN conversations = {}

\* C5 as stated: generateInitialTests plus provideFeedback calls of a unit
\* never exceed maxTries.
C5_AtMostMaxTries == cur.gen + cur.fb <= maxTries

\* C5 as amended: generateInitialTests plus provideFeedback calls of a unit
\* never exceed maxTries + 1, and provideFeedback calls never exceed maxTries.
C5_RoundTrips ==
    /\ cur.gen + cur.fb <= maxTries + 1
    /\ cur.fb <= maxTries

C5_Witness ==
    /\ UnitEnded
    /\ cur.gen + cur.fb = maxTries + 1

\* C6: generateInitialTests is called at most once per unit, on attempt 1
\* only and before any runTests; a later attempt calls runTests directly.
C6_GenerateOnce ==
    /\ cur.gen <= 1
    /\ pc = "generate" => (numTries = 1 /\ cur.gen = 0 /\ cur.run = 0)
    /\ cur.run > 0 => cur.gen = 1
    /\ (InUnit /\ numTries > 1) => (pc # "generate" /\ cur.gen = 1)

C6_Witness ==
    /\ pc = "run" /\ numTries = 2
    /\ cur.gen = 1 /\ cur.run = 1

\* C7: for an id startConversation returned, the first stopConversation
\* returns null and every later one ErrConversationNotFound, with either
\* client.
C7_StopTwice ==
    \A id \in Started :
        \A i \in DOMAIN StopResults(id) :
            StopResults(id)[i] = IF i = 1 THEN Null ELSE ErrConversationNotFound

C7_Witness ==
    \E id \in Started :
        /\ StopResults(id) = <<Null, ErrConversationNotFound>>
        /\ provider = "chatgpt"

\* The ids for which stopConversation has returned null.
Stopped == {id \in DOMAIN stopLog : \E i \in DOMAIN stopLog[id] : stopLog[id][i] = Null}

\* C8: the registry holds exactly the ids started and not yet stopped, and an
\* operation on an id that is not in it returns ErrConversationNotFound,
\* makes no provider call and changes neither the registry nor a history.
C8_NotFound ==
    [][ /\ DOMAIN conversations' = Started' \ Stopped'
        /\ (ret'.op \in {"generate", "feedback", "stop"}
                /\ ret'.id \notin DOMAIN conversations)
            => /\ ret'.err = ErrConversationNotFound
               /\ ~ret'.threw
               /\ ret'.calls = 0
               /\ conversations' = conversations
               /\ inherited' = inherited ]_vars

\* C9: when startConversation returns an error, runCommand rejects with that
\* error and calls neither generateInitialTests nor runTests for the unit.
C9_StartError ==
    cur.startErr # Null =>
        /\ promise = [state |-> "rejected", err |-> cur.startErr]
        /\ cur.gen = 0
        /\ cur.run = 0
        /\ pc = "done"

C9_Witness ==
    /\ cur.startErr # Null
    /\ cur.start = 1
    /\ promise.state = "rejected"

\* C10: when generateInitialTests returns an error on the first attempt,
\* runCommand rejects with that error.
C10_GenerateError ==
    (UnitEnded /\ cur.genErr # Null) =>
        promise = [state |-> "rejected", err |-> cur.genErr]

\* analyzeSourceCodeFile has just yielded the k-th function of file f.
Yielded(f, k) == pc = "funcs" /\ fileIdx = f /\ funcIdx = 1 /\ k <= funcs

\* startConversation has been called for the k-th function of file f.
StartCalled(f, k) == cur.unit = <<f, k>> /\ cur.start = 1

\* startConversation returned an error for a function of file f before the
\* k-th, and runCommand rejected.
EarlierStartFailed(f, k) ==
    /\ \E j \in 1..(k - 1) : cur.unit = <<f, j>>
    /\ cur.startErr # Null
    /\ promise = [state |-> "rejected", err |-> cur.startErr]

\* C11 as stated: for every unit the analyzer yields, startConversation is
\* eventually called, whatever the outcome of the earlier units.
C11_AlwaysAdvances ==
    \A f \in 1..MaxFiles, k \in 1..MaxUnits : Yielded(f, k) ~> StartCalled(f, k)

\* C11 as amended: for every unit the analyzer yields, startConversation is
\* eventually called, unless startConversation returned an error for an
\* earlier unit of the file, which makes runCommand reject.
C11_AdvancesUnlessStartFails ==
    \A f \in 1..MaxFiles, k \in 1..MaxUnits :
        Yielded(f, k) ~> (StartCalled(f, k) \/ EarlierStartFailed(f, k))

C11_Witness ==
    /\ \E f \in 1..MaxFiles : StartCalled(f, 2)
    /\ cur.startErr = Null
    /\ outcomes # <<>>
    /\ outcomes[Len(outcomes)] = "FATAL"

\* The attempts made for cur's unit.
Attempts == <<cur.gen, cur.run, cur.fb, cur.writes>>

\* C12: an exception thrown by a collaborator during an attempt aborts the
\* current unit only: no further call is made for that unit, runCommand does
\* not reject because of it, the later functions of the file are still
\* started and runCommand comes to its end, with cleanup called when it
\* resolves (it rejects only for a later failure of startConversation or of
\* the analyzer).
C12_AbortsUnitOnly ==
    /\ [](cur.threw => ~RejectedByUnit)
    /\ [][(cur.threw /\ cur'.unit = cur.unit) =>
            (Attempts' = Attempts /\ cur'.stop = cur.stop)]_vars
    /\ \A f \in 1..MaxFiles, k \in 2..MaxUnits :
          (cur.threw /\ fileIdx = f /\ cur.unit = <<f, k - 1>> /\ k <= funcs)
              ~> (StartCalled(f, k) \/ promise.state = "rejected")
    /\ cur.threw ~> (\/ promise.state = "rejected"
                     \/ promise.state = "resolved" /\ cleanups = 1)

C12_Witness ==
    /\ Len(outcomes) = 2
    /\ outcomes[1] = "ABORTED"
    /\ outcomes[2] = "PASSED"
    /\ promise.state = "resolved"
    /\ cleanups = 1

\* The last operation was generateInitialTests or provideFeedback of the
\* Claude client on a conversation of the registry.
ClaudeReturned ==
    /\ provider = "claude"
    /\ ret.op \in {"generate", "feedback"}
    /\ ret.id \in Started \cap DOMAIN conversations

\* The provider calls of the last operation that succeeded.
Succeeded == {i \in DOMAIN ret.made : ret.made[i] = "ok"}

\* C13: generateInitialTests and provideFeedback of the Claude client, on a
\* conversation of the registry, make at most 3 provider calls; the first call
\* that succeeds ends the operation, which returns its blocks and a null
\* error; when 3 calls have failed the operation returns [""] and its
\* terminal error.
C13_ThreeCalls ==
    ClaudeReturned =>
        /\ ~ret.threw
        /\ ret.calls = Len(ret.made)
        /\ ret.calls \in 1..3
        /\ IF Succeeded # {}
           THEN /\ Succeeded = {ret.calls}
                /\ ret.err = Null
                /\ ret.blocks = "tests"
           ELSE /\ ret.calls = 3
                /\ ret.blocks = "placeholder"
                /\ ret.err = IF ret.op = "generate"
                             THEN "Failed to generate initial tests"
                             ELSE "Failed to provide feedback"

C13_Witness ==
    /\ ClaudeReturned
    /\ ret.op = "generate"
    /\ ret.made = <<"rate_limit_error", "prompt is too long", "ok">>
    /\ ret.err = Null

\* C14: with either client, a failing provider call inside
\* generateInitialTests or provideFeedback on a started conversation is
\* retried by the operation, and no provider exception escapes it: a failure
\* reaches the caller only as the error of the returned pair.
C14_SameFailureContract ==
    (ret.op \in {"generate", "feedback"} /\ ret.id \in Started) =>
        /\ ~ret.threw
        /\ (ret.made # <<>> /\ ret.made[1] # "ok") => ret.calls > 1

\* The history of the conversation of cur's unit.
History == conversations[chatId].messages

\* C15: once generateInitialTests has been called for a unit, the first
\* message of its conversation's history is the initial user prompt, whatever
\* errors the provider returned to provideFeedback since.
C15_PromptKept ==
    (cur.gen = 1 /\ chatId \in DOMAIN conversations) =>
        (History # <<>> /\ History[1] = UserPrompt)

\* msgs without its oldest non-initial message, the one at position 2.
WithoutOldest(msgs) ==
    IF Len(msgs) < 2 THEN msgs
    ELSE [i \in 1..(Len(msgs) - 1) |-> IF i < 2 THEN msgs[i] ELSE msgs[i + 1]]

\* The history C16 describes after provider calls with the outcomes made:
\* position 2 removed once for every 'prompt is too long', the reply appended
\* when a call succeeds.
RECURSIVE PrunedOldest(_, _, _)
PrunedOldest(msgs, made, i) ==
    IF i > Len(made) THEN msgs
    ELSE IF made[i] = "ok" THEN Append(msgs, AssistantMessage)
    ELSE PrunedOldest(IF made[i] = "prompt is too long" THEN WithoutOldest(msgs) ELSE msgs,
                      made, i + 1)

\* C16: on each 'prompt is too long' error provideFeedback of the Claude
\* client removes exactly one message, the one at position 2 of the history
\* (the oldest that is not the initial prompt), and retries.
C16_PrunesOldest ==
    [][(pc = "feedback" /\ provider = "claude" /\ chatId \in DOMAIN conversations) =>
         conversations'[chatId].messages =
             PrunedOldest(Append(History, FailureMessage(results)), ret'.made, 1)]_vars

\* The step is a generateInitialTests that succeeded on a conversation of the
\* registry.
GenerateSucceeded ==
    /\ ret'.op = "generate"
    /\ ret'.err = Null
    /\ ~ret'.threw
    /\ ret'.id \in DOMAIN conversations

\* The step changes no conversation but the one under id.
OthersUnchanged(id) ==
    /\ DOMAIN conversations' = DOMAIN conversations
    /\ \A k \in DOMAIN conversations \ {id} : conversations'[k] = conversations[k]

RECURSIVE IsSubSeq(_, _)
IsSubSeq(a, b) ==
    IF a = <<>> THEN TRUE
    ELSE IF b = <<>> THEN FALSE
    ELSE IF Head(a) = Head(b) THEN IsSubSeq(Tail(a), Tail(b))
    ELSE IsSubSeq(a, Tail(b))

\* The provider calls of the operation that failed with 'prompt is too long'.
TooLong(made) == Cardinality({i \in DOMAIN made : made[i] = "prompt is too long"})

\* The feedback message of the step, and the reply when the step succeeded.
Exchange ==
    IF ret'.err = Null /\ ~ret'.threw
    THEN <<FailureMessage(results), AssistantMessage>>
    ELSE <<FailureMessage(results)>>

\* C18 as stated: when provideFeedback succeeds, the history afterwards is
\* the history before, followed by the feedback message and the reply.
C18_PrefixKept ==
    [][(pc = "feedback" /\ chatId \in DOMAIN conversations
            /\ ret'.err = Null /\ ~ret'.threw) =>
         conversations'[chatId].messages =
            History \o <<FailureMessage(results), AssistantMessage>>]_vars

\* C18 as amended: provideFeedback appends the feedback message before it
\* calls the provider; unless a call fails with 'prompt is too long', the
\* history afterwards is the history before, followed by the feedback message
\* and, on success, the reply. Every 'prompt is too long' removes at most one
\* message; the others keep their order.
C18_PrefixKeptUnlessPruned ==
    [][(pc = "feedback" /\ chatId \in DOMAIN conversations) =>
         LET after == conversations'[chatId].messages
             full  == History \o Exchange
         IN  /\ TooLong(ret'.made) = 0 => after = full
             /\ IsSubSeq(after, full)
             /\ Len(after) >= Len(full) - TooLong(ret'.made)]_vars

C18_Witness ==
    /\ ret.op = "feedback" /\ ret.err = Null
    /\ ret.made = <<"rate_limit_error", "ok">>
    /\ chatId \in DOMAIN conversations
    /\ History = <<UserPrompt, AssistantMessage,
                   FailureMessage(Output("json", cur.unit, 1)), AssistantMessage>>

\* C19: startConversation of either client never fails and allocates a new
\* id: it returns [id, null] with an id never returned before, stopped or
\* not; the registry then holds under that id the caller's fields, the new id
\* in place of the one supplied, and an empty history; no other conversation
\* changes.
C19_FreshId ==
    [][ret'.op = "start" =>
         /\ ret'.err = Null /\ ~ret'.threw
         /\ ret'.id \notin Started \cup DOMAIN conversations \cup {NoId}
         /\ DOMAIN conversations' = DOMAIN conversations \cup {ret'.id}
         /\ conversations'[ret'.id] =
                [id |-> ret'.id, unit |-> <<0, nextId>>, messages |-> <<>>]
         /\ \A k \in DOMAIN conversations : conversations'[k] = conversations[k]]_vars

C19_Witness ==
    /\ ret.op = "start" /\ ret.id = Uuid(2)
    /\ Uuid(1) \in Stopped
    /\ DOMAIN conversations = {Uuid(2)}
    /\ conversations[Uuid(2)].messages = <<>>

\* C20: stopConversation(id) removes nothing but the conversation under id:
\* every other conversation stays in the registry with its fields and its
\* history, and a stopConversation on it would return null.
C20_StopsOnlyOne ==
    [][ret'.op = "stop" =>
         /\ DOMAIN conversations \ {ret'.id} \subseteq DOMAIN conversations'
         /\ DOMAIN conversations' \subseteq DOMAIN conversations
         /\ \A k \in DOMAIN conversations \ {ret'.id} :
               /\ conversations'[k] = conversations[k]
               /\ stopConversation(conversations', inherited', k).ret.err = Null]_vars

C20_Witness ==
    /\ ret.op = "stop" /\ ret.err = Null /\ ret.id = Uuid(1)
    /\ DOMAIN conversations = {Uuid(2)}
    /\ conversations[Uuid(2)].messages = <<UserPrompt, AssistantMessage>>

\* C21: when getFilesRecursively finds no file, runCommand makes no analysis,
\* conversation, generation, run or feedback call, and calls cleanup before it
\* returns.
C21_NoFiles ==
    files = 0 =>
        /\ analyses = 0
        /\ cur = NoUnit /\ ret = NoRet /\ nextId = 1 /\ outcomes = <<>>
        /\ pc \in {"files", "done"}
        /\ pc = "done" => (cleanups = 1 /\ promise.state = "resolved")

C21_Witness == files = 0 /\ pc = "done" /\ cleanups = 1

\* The declarations for which a conversation was started.
StartedDecls == {conversations[id].unit[2] : id \in DOMAIN conversations}

\* The elements of a sequence.
Range(seq) == {seq[i] : i \in DOMAIN seq}

IsStep(call) ==
    call[1] \in {"generateInitialTests", "writeTestsToFile", "runTests", "provideFeedback"}

Steps == SelectSeq(cur.log, IsStep)

\* The i-th of these calls in a strictly ordered unit: generation and write,
\* then run, feedback, write, over and over.
OrderedStep(i) ==
    IF i = 1 THEN "generateInitialTests"
    ELSE IF i = 2 THEN "writeTestsToFile"
    ELSE IF i % 3 = 0 THEN "runTests"
    ELSE IF i % 3 = 1 THEN "provideFeedback"
    ELSE "writeTestsToFile"

\* C23: within a unit the first runTests follows generateInitialTests and the
\* write of its result, and between two consecutive runTests there is exactly
\* one provideFeedback followed by exactly one write.
C23_Ordered == \A i \in DOMAIN Steps : Steps[i][1] = OrderedStep(i)

C23_Witness ==
    /\ Len(Steps) = 8
    /\ Steps[6][1] = "runTests"
    /\ Steps[8][1] = "writeTestsToFile"

\* Unit u is discovered before unit v: files in the order of
\* getFilesRecursively, functions in the order of exportedFunctions.
Before(u, v) == u[1] < v[1] \/ (u[1] = v[1] /\ u[2] < v[2])

IsPrefix(a, b) == Len(a) <= Len(b) /\ SubSeq(b, 1, Len(a)) = a

\* C24: units are processed one at a time in discovery order: a unit's first
\* call is made when every unit started before it has been left, the unit is
\* the next one discovered, and every call is made for the one unit in
\* progress.
C24_Sequential ==
    [][/\ cur'.unit # cur.unit =>
            /\ pc = "funcs"
            /\ Before(cur.unit, cur'.unit)
            /\ cur'.unit = <<fileIdx, funcIdx>>
            /\ Len(cur'.log) = 1
            /\ Len(outcomes) = nextId - 1
       /\ cur'.unit = cur.unit =>
            /\ IsPrefix(cur.log, cur'.log)
            /\ cur'.log # cur.log => InUnit]_vars

C24_Witness ==
    /\ cur.unit = <<2, 1>>
    /\ outcomes = <<"EXHAUSTED", "PASSED">>
    /\ Len(cur.log) > 3

\* C25: the loop awaits every call it makes before it proceeds: when it has
\* left a unit (to start the next unit, to call cleanup or to return), no
\* promise of a call made for that unit is left unawaited, the one of the
\* stopConversation issued on exhaustion included.
C25_StopAwaited == UnitEnded => cur.floating = 0

\* C26: the delay follows every attempt, whatever its outcome: each try block
\* entered sleeps once before the next pass or the break, so a unit that has
\* been left slept as often as it entered an attempt; the pass that finds the
\* budget exceeded enters no attempt and sleeps no more.
C26_SleepPerAttempt ==
    /\ (InUnit /\ pc = "while") => cur.sleeps = cur.tries
    /\ pc \in {"generate", "run", "feedback", "sleep"} => cur.sleeps = cur.tries - 1
    /\ (UnitEnded /\ cur.startErr = Null) => cur.sleeps = cur.tries
    /\ (UnitEnded /\ cur.state = "EXHAUSTED") =>
          /\ cur.tries = maxTries
          /\ cur.log[Len(cur.log)][1] = "stopConversation"
          /\ cur.log[Len(cur.log) - 1][1] = "sleep"

C26_Witness ==
    /\ UnitEnded /\ cur.threw
    /\ cur.tries = 2 /\ cur.sleeps = 2
    /\ "PASSED" \in Range(outcomes)

\* The number of runTests calls among the first i calls of the unit.
RunsUpTo(i) == Cardinality({j \in 1..i : cur.log[j][1] = "runTests"})

\* C27: every provideFeedback call receives, unchanged, the results that the
\* runTests call just before it in the same unit returned, and that run
\* reported success = false.
C27_FeedbackGetsResults ==
    \A i \in 1..Len(cur.log) :
        cur.log[i][1] = "provideFeedback" =>
            /\ i > 1
            /\ cur.log[i - 1][1] = "runTests"
            /\ cur.log[i - 1][2] = cur.log[i][2]
            /\ cur.log[i][2] # NoOutput
            /\ ~cur.runHist[RunsUpTo(i)]

C27_Witness ==
    \E i, j \in 1..Len(cur.log) :
        /\ i < j
        /\ cur.log[i][1] = "provideFeedback"
        /\ cur.log[j][1] = "provideFeedback"
        /\ cur.log[i][2] # cur.log[j][2]
        /\ cur.log[j - 1] = Call("runTests", cur.log[j][2])

\* The last runTests call of the unit resolved, with success = false.
ResolvedFailure ==
    /\ cur.run > 0
    /\ Len(cur.runHist) = cur.run
    /\ ~cur.runHist[cur.run]

\* C28: runTests resolves with success = false only when the tests ran and
\* failed; when the runner command could not be executed it does not resolve
\* with success = false.
C28_InfrastructureErrorsPropagate == ~(cur.exec = "notRun" /\ ResolvedFailure)

\* What run n of a unit can itself produce when it fails: the report jest
\* wrote in that run, or the output of that run's command.
Fresh(unit, n) == {Output(kind, unit, n) : kind \in {"json", "stderr"}}

\* C29: the results of a failing runTests call are produced by that run: they
\* never are what an earlier attempt or an earlier unit left in the results
\* file.
C29_ResultsFresh ==
    (pc = "feedback" /\ ResolvedFailure) => results \in Fresh(cur.unit, cur.run)

\* C30: cleanup is called exactly once when the run ends, whether runCommand
\* returns or rejects with the error of a unit, and nothing runs after it.
C30_CleanupOnce ==
    /\ cleanups <= 1
    /\ cleanups = 1 => pc = "done"
    /\ promise.state # "pending" => cleanups = 1

\* The content of the block that was put between fences again.
Refenced == SubSeq(document[1].content, 1, Len(document[1].content) - 1)

\* C31: extraction is idempotent on its own output: a block that was
\* returned, put between language fences again, is extracted as exactly that
\* one block.
C31_Idempotent == pc = "extractedAgain" => testBlocks = <<Refenced>>

C31_Witness ==
    /\ pc = "extractedAgain"
    /\ document[1].label = "typescript"
    /\ Refenced = <<"x", " ", "x">>
    /\ testBlocks = <<Refenced>>

\* The blocks of a document that carry a label of the target language.
RECURSIVE Labeled(_)
Labeled(doc) ==
    IF doc = <<>> THEN <<>>
    ELSE IF Head(doc).kind = "block" /\ Head(doc).label \in RegexLabels
    THEN <<Head(doc).content>> \o Labeled(Tail(doc))
    ELSE Labeled(Tail(doc))

\* C32: extractCodeBlocks returns the contents of the blocks labeled for the
\* target language, trimmed and in order, and nothing else: no text outside
\* the blocks and no content of a block with another label.
C32_OnlyLabeledBlocks ==
    pc = "extracted" =>
        /\ Len(testBlocks) = Len(Labeled(document))
        /\ \A i \in DOMAIN testBlocks : testBlocks[i] = trim(Labeled(document)[i])

\* C33: the context handed to startConversation keeps imports and types
\* apart: what the prompt presents as the imports of the file are the file's
\* import statements, and what it presents as the types used are the type
\* declarations the unit refers to.
C33_ImportsAndTypesApart ==
    cur.start > 0 =>
        /\ PromptSections(cur.context).imports = ImportStatements(cur.unit[1])
        /\ PromptSections(cur.context).types = FunctionTypes(cur.unit[1], cur.unit[2])

\* The budget of the run; a maxTries that is not a number is granted the
\* largest budget of the model.
Budget == IF maxTries = NaN THEN MaxTriesBound ELSE maxTries

\* C34: every unit's loop is bounded by maxTries: numTries never exceeds
\* maxTries + 1, runTests is called only with 1 <= numTries <= maxTries, and
\* so runCommand comes to its end whatever the collaborators return.
C34_Bounded ==
    /\ numTries <= Budget + 1
    /\ pc = "run" => (1 <= numTries /\ numTries <= Budget)

\* C35: the loop uses only live ids: while a unit is in progress its chatId
\* is registered, no generateInitialTests, provideFeedback or stopConversation
\* call of the loop returns ConversationNotFound, and no id is stopped twice.
C35_LiveIds ==
    /\ InUnit => chatId \in DOMAIN conversations
    /\ ret.op \in {"generate", "feedback", "stop"} =>
          (ret.id = chatId /\ ret.err # ErrConversationNotFound)
    /\ \A id \in DOMAIN stopLog : Len(stopLog[id]) <= 1

C35_Witness ==
    /\ "EXHAUSTED" \in Range(outcomes)
    /\ InUnit /\ chatId = Uuid(2)
    /\ ret.op = "feedback" /\ ret.err = Null
    /\ stopLog = (Uuid(1) :> <<Null>>)
    /\ Uuid(1) \notin DOMAIN conversations

\* The roles of a history alternate, the first message being a user message.
Alternates(msgs) ==
    \A i \in DOMAIN msgs : msgs[i].role = (IF i % 2 = 1 THEN "user" ELSE "assistant")

\* C36: the history of every conversation of the loop alternates strictly
\* between user and assistant and starts with the initial prompt, also after
\* a provideFeedback call that failed and after pruning.
C36_RolesAlternate ==
    \A id \in DOMAIN conversations :
        LET msgs == conversations[id].messages
        IN  /\ Alternates(msgs)
            /\ msgs # <<>> => msgs[1] = UserPrompt

\* The step is a provideFeedback call of the loop that returned an error.
FeedbackFailed ==
    /\ pc = "feedback"
    /\ ret'.op = "feedback" /\ ~ret'.threw /\ ret'.err # Null

\* C37: a provideFeedback call that returns a terminal error leaves the
\* conversation as it was: still registered, with the history it had before
\* the call.
C37_FailedFeedbackKeepsHistory ==
    [][FeedbackFailed =>
          /\ chatId \in DOMAIN conversations'
          /\ conversations'[chatId].messages = conversations[chatId].messages]_vars

\* The writeTestsToFile calls of the unit that returned.
WritesDone ==
    {i \in DOMAIN cur.log :
        /\ cur.log[i][1] = "writeTestsToFile"
        /\ ~(cur.threw /\ i = Len(cur.log))}

\* C38: the test file of a unit is overwritten only with the blocks of a
\* successful AI call: the placeholder blocks a failed provideFeedback call
\* returns are never written over the candidate.
C38_NoPlaceholderWritten == \A i \in WritesDone : cur.log[i][2][1] = "tests"

\* The units of the tree that have reached their terminal state.
Finished ==
    {u \in (1..Len(tree)) \X (1..MaxUnits) :
        /\ u[2] <= Len(tree[u[1]].functions)
        /\ u[1] < fileIdx \/ (u[1] = fileIdx /\ u[2] < funcIdx)}

\* C39: the test file of a unit is written only while that unit is
\* processed: the test file of a unit that has reached its terminal state
\* still holds the tests of that unit, whatever units were processed since.
C39_OwnTestFile ==
    \A u \in Finished :
        testFiles[testFilePath(tree[u[1]], tree[u[1]].functions[u[2]])] = u

====
